---- MODULE Spec2Model ----
(***************************************************************************)
(* Guest-side binding layer of aidoku-as: the dynamic value bridge         *)
(* (modules/std.ts, HostObject) and the HTTP request pipeline              *)
(* (modules/net.ts, Request), together with the host resources they        *)
(* address through integer handles.                                        *)
(***************************************************************************)
EXTENDS Integers, Sequences, FiniteSets, TLC

\* ------------------------------------------------------------------ bounds
MaxRid == 3      \* value descriptors the host can hold at once: 0..MaxRid-1
MaxOps == 3      \* HostObject operations in one run
MaxNetOps == 5   \* Request operations in one run of the lifecycle
MaxCfgOps == 3   \* Request operations in one run of the builders
MaxReq == 2      \* Request instances in one run, and request descriptors
MaxCollRid == 9  \* value descriptors in a run on collections: 0..MaxCollRid-1
MaxCollOps == 3  \* HostObject operations in one run on collections
MaxSiblings == 2 \* elements in one sibling list of a parsed document
MaxViewOps == 4  \* operations in one run on parsed views
MaxLinkOps == 3  \* DeepLink operations in one run

\* ------------------------------------------------- std.ts: enum ObjectType
ObjectType == [Null |-> 0, Int |-> 1, Float |-> 2, String |-> 3, Bool |-> 4,
               Array |-> 5, Object |-> 6, Date |-> 7]

\* usize and i32 have the same width (32 bits on the wasm32 target); the
\* model keeps the wraparound at a width its integers can hold
WordBits == 8
Word == 2 ^ WordBits
AsI32(u) == IF u % Word >= Word \div 2 THEN (u % Word) - Word ELSE u % Word
\* i64 is twice as wide
Wide == 2 ^ (2 * WordBits)
AsI64(u) == IF u % Wide >= Wide \div 2 THEN (u % Wide) - Wide ELSE u % Wide

\* the widening that fills the upper half with zeros
i64_extend_i32_u(n) == AsI64(n % Word)

\* the implicit conversion of an i32 to an i64 argument: the bits of the
\* value, the upper half filled with its sign bit
i64_extend_i32_s(n) ==
    AsI64(IF n % Word >= Word \div 2 THEN (n % Word) + (Wide - Word) ELSE n % Word)

\* ---------------------------------------------------------- input domains
RidSet == 0 .. (MaxRid - 1)
NoRid == 0 - 1                      \* the host's "no descriptor" result
StrSet == {<< >>, <<97>>, <<233>>}  \* strings as sequences of code units
KeySet == {<<97>>, <<98>>}
\* i32 arguments: small ones and the two extremes
IntSet == {0 - 1, 7, 0 - (Word \div 2), (Word \div 2) - 1}
FloatSet == {2}
IndexSet == 0 .. 1

\* String.UTF8.encode / String.UTF8.decode on code units below 0x800
RECURSIVE UTF8encode(_)
UTF8encode(s) ==
    IF s = << >> THEN << >>
    ELSE LET c == Head(s) IN
         (IF c < 128 THEN <<c>>
          ELSE <<192 + (c \div 64), 128 + (c % 64)>>) \o UTF8encode(Tail(s))

UTF8byteLength(s) == Len(UTF8encode(s))

RECURSIVE UTF8decode(_)
UTF8decode(b) ==
    IF b = << >> THEN << >>
    ELSE IF Head(b) < 128 THEN <<Head(b)>> \o UTF8decode(Tail(b))
    ELSE IF Len(b) >= 2
         THEN <<(Head(b) - 192) * 64 + (b[2] - 128)>> \o UTF8decode(Tail(Tail(b)))
         ELSE <<65533>>

\* ------------------------------------------------------------ host values
\* A host resource: its Kind and its content, held in the field of its Kind
\* (a number, a flag, UTF-8 bytes, elements, or key -> value fields).
NullV == [kind |-> ObjectType.Null, num |-> 0, flag |-> FALSE, bytes |-> << >>,
          elems |-> << >>, fields |-> << >>]
IntV(n) == [NullV EXCEPT !.kind = ObjectType.Int, !.num = n]
FloatV(x) == [NullV EXCEPT !.kind = ObjectType.Float, !.num = x]
StringV(bytes) == [NullV EXCEPT !.kind = ObjectType.String, !.bytes = bytes]
BoolV(b) == [NullV EXCEPT !.kind = ObjectType.Bool, !.flag = b]
ArrayV(elems) == [NullV EXCEPT !.kind = ObjectType.Array, !.elems = elems]
ObjectV(fields) == [NullV EXCEPT !.kind = ObjectType.Object, !.fields = fields]
Dead == [NullV EXCEPT !.kind = 0 - 1]   \* a released descriptor: names nothing
Fresh == [NullV EXCEPT !.kind = 0 - 2]  \* a descriptor never handed out yet

EmptyFields == << >>

VARIABLES
    store,    \* host: value descriptor table, rid -> resource or Dead
    objs,     \* guest: the HostObject wrappers obtained so far
    last,     \* guest: the last public operation and what it returned
    misuse,   \* guest: some operation was invoked on a wrapper after its close()
    nops,     \* number of public operations so far
    opsBound, \* number of public operations the run may take
    netstore, \* host: request descriptor table, req -> request or NoRequest
    reqs,     \* guest: the Request instances constructed so far
    trace,    \* host calls issued by the last public Request operation, in order
    links     \* guest: the DeepLink instances constructed so far

vars == <<store, objs, last, misuse, nops, opsBound, netstore, reqs, trace, links>>

\* ------------------------------------------------- net.ts: enum HttpMethod
HttpMethod == [GET |-> 0, POST |-> 1, PUT |-> 2, DELETE |-> 3, HEAD |-> 4]

NetRidSet == 0 .. (MaxReq - 1)
MethodSet == {HttpMethod.GET, HttpMethod.POST}
\* response bodies the transport can deliver: empty, short, and one whose
\* size does not fit the signed word
RespSet == {<< >>, <<104, 105>>, [n \in 1 .. (Word \div 2) |-> 97]}
\* what json(req) can parse a response into: nothing (Null) or a document
ParseSet == {NullV, ObjectV(EmptyFields)}
NodeV == [NullV EXCEPT !.kind = 8]   \* a parsed document (Kind Node)

\* a request descriptor slot that names nothing
NoRequest == [live |-> FALSE, used |-> TRUE, owner |-> 0, method |-> 0,
              url |-> << >>, headers |-> EmptyFields, body |-> << >>,
              sends |-> 0, resp |-> << >>]
\* a request descriptor never handed out yet
FreshRequest == [NoRequest EXCEPT !.used = FALSE]

\* ---------------------------------------------- host side of the std group
Live(st, rid) == rid \in DOMAIN st /\ st[rid] /= Dead /\ st[rid] /= Fresh
\* the descriptors the host may hand out next: any released one (ids may be
\* reused), or a new one; new ones are handed out in ascending order
FreeRids(st) ==
    {r \in DOMAIN st : st[r] = Dead}
    \cup {r \in DOMAIN st : st[r] = Fresh /\ \A q \in DOMAIN st : st[q] = Fresh => r <= q}

\* typeof(rid): the Kind of the resource; a descriptor naming nothing reads Null
typeof_std(st, rid) == IF Live(st, rid) THEN st[rid].kind ELSE ObjectType.Null

destroy(st, rid) == IF Live(st, rid) THEN [st EXCEPT ![rid] = Dead] ELSE st

IsKind(st, rid, k) == Live(st, rid) /\ st[rid].kind = k

object_set(st, rid, key, value) ==
    IF IsKind(st, rid, ObjectType.Object) /\ Live(st, value)
    THEN [st EXCEPT ![rid] = ObjectV(
            [k \in (DOMAIN st[rid].fields) \cup {key} |->
                IF k = key THEN st[value] ELSE st[rid].fields[k]])]
    ELSE st

object_remove(st, rid, key) ==
    IF IsKind(st, rid, ObjectType.Object)
    THEN [st EXCEPT ![rid] = ObjectV(
            [k \in (DOMAIN st[rid].fields) \ {key} |-> st[rid].fields[k]])]
    ELSE st

HasKey(st, rid, key) == IsKind(st, rid, ObjectType.Object) /\ key \in DOMAIN st[rid].fields

array_len(st, rid) == IF IsKind(st, rid, ObjectType.Array) THEN Len(st[rid].elems) ELSE 0

InRange(st, rid, idx) == IsKind(st, rid, ObjectType.Array) /\ idx < Len(st[rid].elems)

array_set(st, rid, idx, value) ==
    IF InRange(st, rid, idx) /\ Live(st, value)
    THEN [st EXCEPT ![rid] = ArrayV([st[rid].elems EXCEPT ![idx + 1] = st[value]])]
    ELSE st

array_append(st, rid, value) ==
    IF IsKind(st, rid, ObjectType.Array) /\ Live(st, value)
    THEN [st EXCEPT ![rid] = ArrayV(Append(st[rid].elems, st[value]))]
    ELSE st

array_remove(st, rid, idx) ==
    IF InRange(st, rid, idx)
    THEN [st EXCEPT ![rid] = ArrayV(
            [i \in 1 .. (Len(st[rid].elems) - 1) |->
                IF i <= idx THEN st[rid].elems[i] ELSE st[rid].elems[i + 1]])]
    ELSE st

\* create_*: the resource each host constructor allocates
create_null == NullV
create_array == ArrayV(<< >>)
create_object == ObjectV(EmptyFields)
create_string(buf, len) == StringV(SubSeq(buf, 1, len))
create_int(value) == IntV(value)
create_float(value) == FloatV(value)
create_bool(value) == BoolV(value)

\* ----------------------------------------------- std.ts: class HostObject
\* A wrapper holds only its rid; kind0 records the Kind read when the wrapper
\* was obtained and closed records that close() was called on it; src records
\* the string a wrapper made by string(s) was given (as <<s>>), int the
\* number a wrapper made by integer(n) was given (as <<n>>) and of the
\* wrapper a copy was taken from (0: none).
Wrapper(st, rid) ==
    [rid |-> rid, kind0 |-> typeof_std(st, rid), closed |-> FALSE,
     src |-> << >>, int |-> << >>, of |-> 0]

Objs == 1 .. Len(objs)

\* one more public operation; those of the value bridge, the request
\* pipeline and the parsed views leave the deep links alone
Step == nops < opsBound /\ nops' = nops + 1 /\ UNCHANGED opsBound
Tick == Step /\ UNCHANGED links

\* the wrapper an operation is invoked on: using it after close() is a misuse
Use(w) == misuse' = (misuse \/ objs[w].closed)

\* what a public call returned: a number or rid (val), a bool (flag), or a
\* string or buffer (seq)
Ret(op, w, st, val) ==
    [op |-> op, w |-> w, st |-> st, val |-> val, flag |-> FALSE, seq |-> << >>]

\* a host call: the import, the descriptor it is given and whether that
\* descriptor names something, then the other arguments: a key, a byte
\* payload, a number (an index, or the length a length query reports) and a
\* value descriptor
Call(fn, h, live) ==
    [fn |-> fn, h |-> h, live |-> live,
     key |-> << >>, data |-> << >>, arg |-> 0, value |-> 0 - 1]
StdCall(fn, rid) == Call(fn, rid, Live(store, rid))

\* new HostObject(rid) around a resource the host has just allocated at rid
Construct(op, rid, resource, src) ==
    /\ store' = [store EXCEPT ![rid] = resource]
    /\ objs' = Append(objs, [Wrapper(store', rid) EXCEPT !.src = src])
    /\ last' = Ret(op, Len(objs) + 1, "ok", rid)
    /\ trace' = <<Call("create_" \o op, rid, TRUE)>>

NewObject(op, rid, resource) == Construct(op, rid, resource, << >>)

\* new HostObject(rid) around the descriptor a host lookup returns for
\* resource, st being the table the call leaves: a fresh descriptor, or for
\* a Null result possibly no descriptor at all
YieldFrom(op, call, st, resource, of) ==
    \E rid \in FreeRids(st) \cup (IF resource = NullV THEN {NoRid} ELSE {}) :
        /\ store' = IF rid = NoRid THEN st ELSE [st EXCEPT ![rid] = resource]
        /\ objs' = Append(objs, [Wrapper(store', rid) EXCEPT !.of = of])
        /\ last' = Ret(op, Len(objs) + 1, "ok", rid)
        /\ trace' = <<call>>

Yield(op, call, st, resource) == YieldFrom(op, call, st, resource, 0)

\* what a host call may do when the Kind (or index) does not fit the call:
\* the guest checks nothing, the outcome is the host's
Outcomes(fits) == IF fits THEN {"ok"} ELSE {"ok", "abort"}

\* a call that aborts returns nothing and changes nothing
Abort(op, w, call) ==
    /\ last' = Ret(op, w, "abort", 0)
    /\ trace' = <<call>>
    /\ UNCHANGED <<store, objs>>

HostObject_null ==
    /\ Tick
    /\ \E rid \in FreeRids(store) : NewObject("null", rid, create_null)
    /\ UNCHANGED <<misuse, netstore, reqs>>

HostObject_array ==
    /\ Tick
    /\ \E rid \in FreeRids(store) : NewObject("array", rid, create_array)
    /\ UNCHANGED <<misuse, netstore, reqs>>

HostObject_object ==
    /\ Tick
    /\ \E rid \in FreeRids(store) : NewObject("object", rid, create_object)
    /\ UNCHANGED <<misuse, netstore, reqs>>

\* string(value) that passes value.length where the byte length belongs
HostObject_string_length ==
    /\ Tick
    /\ \E value \in StrSet : \E rid \in FreeRids(store) :
          Construct("string", rid,
                    create_string(UTF8encode(value), Len(value)), <<value>>)
    /\ UNCHANGED <<misuse, netstore, reqs>>

HostObject_string ==
    /\ Tick
    /\ \E value \in StrSet : \E rid \in FreeRids(store) :
          Construct("string", rid,
                    create_string(UTF8encode(value), UTF8byteLength(value)),
                    <<value>>)
    /\ UNCHANGED <<misuse, netstore, reqs>>

\* integer() that allocates through create_float
HostObject_integer_asFloat ==
    /\ Tick
    /\ \E value \in IntSet : \E rid \in FreeRids(store) :
          NewObject("integer", rid, create_float(value))
    /\ UNCHANGED <<misuse, netstore, reqs>>

\* integer(value: i32): new HostObject(create_int(value)); create_int takes
\* an i64, so the argument is widened on the way
HostObject_integer ==
    /\ Tick
    /\ \E value \in IntSet : \E rid \in FreeRids(store) :
          /\ store' = [store EXCEPT ![rid] = create_int(i64_extend_i32_s(value))]
          /\ objs' = Append(objs, [Wrapper(store', rid) EXCEPT !.int = <<value>>])
          /\ last' = Ret("integer", Len(objs) + 1, "ok", rid)
          /\ trace' = <<[Call("create_int", rid, TRUE) EXCEPT
                            !.arg = i64_extend_i32_s(value)]>>
    /\ UNCHANGED <<misuse, netstore, reqs>>

HostObject_float ==
    /\ Tick
    /\ \E value \in FloatSet : \E rid \in FreeRids(store) :
          NewObject("float", rid, create_float(value))
    /\ UNCHANGED <<misuse, netstore, reqs>>

HostObject_bool ==
    /\ Tick
    /\ \E value \in BOOLEAN : \E rid \in FreeRids(store) :
          NewObject("bool", rid, create_bool(value))
    /\ UNCHANGED <<misuse, netstore, reqs>>

\* get type(): typeof_std(this.rid)
type(w) == typeof_std(store, objs[w].rid)

HostObject_type ==
    /\ Tick
    /\ \E w \in Objs :
          /\ Use(w)
          /\ last' = Ret("type", w, "ok", type(w))
          /\ trace' = <<StdCall("typeof", objs[w].rid)>>
    /\ UNCHANGED <<store, objs, netstore, reqs>>

\* ---- Object
HostObject_get ==
    /\ Tick
    /\ \E w \in Objs, key \in KeySet :
          LET rid == objs[w].rid
              call == [StdCall("object_get", rid) EXCEPT !.key = UTF8encode(key)]
          IN /\ Use(w)
             /\ \E out \in Outcomes(IsKind(store, rid, ObjectType.Object)) :
                   IF out = "abort" THEN Abort("get", w, call)
                   ELSE Yield("get", call, store,
                              IF HasKey(store, rid, key) THEN store[rid].fields[key]
                              ELSE NullV)
    /\ UNCHANGED <<netstore, reqs>>

\* a void call on this.rid that leaves the table st
Mutate(op, w, call, fits, st) ==
    \E out \in Outcomes(fits) :
        IF out = "abort" THEN Abort(op, w, call)
        ELSE /\ store' = st
             /\ last' = Ret(op, w, "ok", 0)
             /\ trace' = <<call>>
             /\ UNCHANGED objs

\* set(key, value) with the two descriptors exchanged
HostObject_set_swapped ==
    /\ Tick
    /\ \E w \in Objs, key \in KeySet, value \in Objs :
          LET rid == objs[w].rid IN
          /\ misuse' = (misuse \/ objs[w].closed \/ objs[value].closed)
          /\ Mutate("set", w,
                    [StdCall("object_set", rid) EXCEPT
                        !.key = UTF8encode(key), !.value = objs[value].rid],
                    IsKind(store, rid, ObjectType.Object),
                    object_set(store, objs[value].rid, key, rid))
    /\ UNCHANGED <<netstore, reqs>>

HostObject_set ==
    /\ Tick
    /\ \E w \in Objs, key \in KeySet, value \in Objs :
          LET rid == objs[w].rid IN
          /\ misuse' = (misuse \/ objs[w].closed \/ objs[value].closed)
          /\ Mutate("set", w,
                    [StdCall("object_set", rid) EXCEPT
                        !.key = UTF8encode(key), !.value = objs[value].rid],
                    IsKind(store, rid, ObjectType.Object),
                    object_set(store, rid, key, objs[value].rid))
    /\ UNCHANGED <<netstore, reqs>>

HostObject_remove ==
    /\ Tick
    /\ \E w \in Objs, key \in KeySet :
          LET rid == objs[w].rid IN
          /\ Use(w)
          /\ Mutate("remove", w,
                    [StdCall("object_remove", rid) EXCEPT !.key = UTF8encode(key)],
                    IsKind(store, rid, ObjectType.Object),
                    object_remove(store, rid, key))
    /\ UNCHANGED <<netstore, reqs>>

\* ---- Array
HostObject_getAt ==
    /\ Tick
    /\ \E w \in Objs, index \in IndexSet :
          LET rid == objs[w].rid
              call == [StdCall("array_get", rid) EXCEPT !.arg = index]
          IN /\ Use(w)
             /\ \E out \in Outcomes(InRange(store, rid, index)) :
                   IF out = "abort" THEN Abort("getAt", w, call)
                   ELSE Yield("getAt", call, store,
                              IF InRange(store, rid, index)
                              THEN store[rid].elems[index + 1] ELSE NullV)
    /\ UNCHANGED <<netstore, reqs>>

HostObject_setAt ==
    /\ Tick
    /\ \E w \in Objs, index \in IndexSet, value \in Objs :
          LET rid == objs[w].rid IN
          /\ misuse' = (misuse \/ objs[w].closed \/ objs[value].closed)
          /\ Mutate("setAt", w,
                    [StdCall("array_set", rid) EXCEPT
                        !.arg = index, !.value = objs[value].rid],
                    InRange(store, rid, index),
                    array_set(store, rid, index, objs[value].rid))
    /\ UNCHANGED <<netstore, reqs>>

HostObject_removeAt ==
    /\ Tick
    /\ \E w \in Objs, index \in IndexSet :
          LET rid == objs[w].rid IN
          /\ Use(w)
          /\ Mutate("removeAt", w,
                    [StdCall("array_remove", rid) EXCEPT !.arg = index],
                    InRange(store, rid, index),
                    array_remove(store, rid, index))
    /\ UNCHANGED <<netstore, reqs>>

\* push(value) with the two descriptors exchanged
HostObject_push_swapped ==
    /\ Tick
    /\ \E w \in Objs, value \in Objs :
          LET rid == objs[w].rid IN
          /\ misuse' = (misuse \/ objs[w].closed \/ objs[value].closed)
          /\ Mutate("push", w,
                    [StdCall("array_append", rid) EXCEPT !.value = objs[value].rid],
                    IsKind(store, rid, ObjectType.Array),
                    array_append(store, objs[value].rid, rid))
    /\ UNCHANGED <<netstore, reqs>>

\* push(value) that hands value over: the value's handle is released
HostObject_push_consuming ==
    /\ Tick
    /\ \E w \in Objs, value \in Objs :
          LET rid == objs[w].rid IN
          /\ misuse' = (misuse \/ objs[w].closed \/ objs[value].closed)
          /\ Mutate("push", w,
                    [StdCall("array_append", rid) EXCEPT !.value = objs[value].rid],
                    IsKind(store, rid, ObjectType.Array),
                    destroy(array_append(store, rid, objs[value].rid),
                            objs[value].rid))
    /\ UNCHANGED <<netstore, reqs>>

HostObject_push ==
    /\ Tick
    /\ \E w \in Objs, value \in Objs :
          LET rid == objs[w].rid IN
          /\ misuse' = (misuse \/ objs[w].closed \/ objs[value].closed)
          /\ Mutate("push", w,
                    [StdCall("array_append", rid) EXCEPT !.value = objs[value].rid],
                    IsKind(store, rid, ObjectType.Array),
                    array_append(store, rid, objs[value].rid))
    /\ UNCHANGED <<netstore, reqs>>

\* ---- Conversion
\* read_int / read_float / read_bool: the content of a resource of the
\* matching Kind; on any other Kind the host's outcome
Read(op, fn, kind) ==
    /\ Tick
    /\ \E w \in Objs :
          LET rid == objs[w].rid
              call == StdCall(fn, rid)
          IN /\ Use(w)
             /\ \E out \in Outcomes(IsKind(store, rid, kind)) :
                   IF out = "abort" THEN Abort(op, w, call)
                   ELSE /\ LET r == IF IsKind(store, rid, kind) THEN store[rid]
                                     ELSE NullV
                           IN last' = [Ret(op, w, "ok", r.num) EXCEPT !.flag = r.flag]
                        /\ trace' = <<call>>
                        /\ UNCHANGED <<store, objs>>
    /\ UNCHANGED <<netstore, reqs>>

HostObject_toInteger == Read("toInteger", "read_int", ObjectType.Int)

HostObject_toFloat == Read("toFloat", "read_float", ObjectType.Float)

HostObject_toBool == Read("toBool", "read_bool", ObjectType.Bool)

\* string_len(rid): the byte length of a String resource; for anything else
\* the host reports 0 or -1 (as usize)
string_len(st, rid) ==
    IF IsKind(st, rid, ObjectType.String) THEN {Len(st[rid].bytes)}
    ELSE {0, Word - 1}

\* read_string(rid, buf, len): the first len bytes of the String resource
read_string(st, rid, len) == SubSeq(st[rid].bytes, 1, len)

\* toString() of the wrapper around rid when string_len reports ulen:
\* the string returned and the host calls issued
toString(st, rid, ulen) ==
    LET len == AsI32(ulen) IN
    IF len <= 0
    THEN [val |-> << >>,
          calls |-> <<[Call("string_len", rid, Live(st, rid)) EXCEPT !.arg = ulen]>>]
    ELSE [val |-> UTF8decode(read_string(st, rid, len)),
          calls |-> <<[Call("string_len", rid, Live(st, rid)) EXCEPT !.arg = ulen],
                      [Call("read_string", rid, Live(st, rid)) EXCEPT !.arg = len]>>]

HostObject_toString ==
    /\ Tick
    /\ \E w \in Objs :
          /\ Use(w)
          /\ \E ulen \in string_len(store, objs[w].rid) :
                LET r == toString(store, objs[w].rid, ulen) IN
                /\ last' = [Ret("toString", w, "ok", 0) EXCEPT !.seq = r.val]
                /\ trace' = r.calls
    /\ UNCHANGED <<store, objs, netstore, reqs>>

\* ---- Enumeration
\* the descriptors n successive allocations may return from the table st
RECURSIVE Allocs(_, _)
Allocs(st, n) ==
    IF n = 0 THEN {<< >>}
    ELSE UNION {{<<r>> \o t : t \in Allocs([st EXCEPT ![r] = NullV], n - 1)} :
                r \in FreeRids(st)}

\* the table after the host has put resources[i] at rids[i], for every i
Put(st, rids, resources) ==
    [r \in DOMAIN st |->
        IF \E i \in DOMAIN rids : rids[i] = r
        THEN resources[CHOOSE i \in DOMAIN rids : rids[i] = r]
        ELSE st[r]]

\* the orders in which the host may enumerate the keys of an object
Orders(fields) ==
    {ord \in [1 .. Cardinality(DOMAIN fields) -> DOMAIN fields] :
        \A i, j \in DOMAIN ord : ord[i] = ord[j] => i = j}

\* new HostObject(arr).toArray() for the array the host has just put at
\* a[1]: array_len, then getAt(i) for each index, which puts element i at
\* a[1 + i]; the wrappers' rids and the host calls
toArrayOf(st, a, elems) ==
    LET n == Len(elems) IN
    [store |-> Put(st, a, <<ArrayV(elems)>> \o elems),
     rids |-> [i \in 1 .. n |-> a[1 + i]],
     calls |-> <<[Call("array_len", a[1], TRUE) EXCEPT !.arg = n]>>
               \o [i \in 1 .. n |-> [Call("array_get", a[1], TRUE) EXCEPT !.arg = i - 1]]]

\* toArray() that fetches index 0 at every turn of the loop
toArray_first(st, rid, a) ==
    LET size == AsI32(array_len(st, rid) % Word)
        n == IF size > 0 THEN size ELSE 0
    IN [store |-> Put(st, a, [i \in 1 .. n |-> st[rid].elems[1]]),
        rids |-> a,
        calls |-> <<[Call("array_len", rid, Live(st, rid)) EXCEPT
                        !.arg = array_len(st, rid) % Word]>>
                  \o [i \in 1 .. n |->
                        [Call("array_get", rid, Live(st, rid)) EXCEPT !.arg = 0]]]

\* toArray(): size = array_len(this.rid) as i32, then getAt(i) for i < size,
\* which puts element i at the descriptor a[i + 1] the host allocates for it;
\* the table left, the wrappers' rids and the host calls
toArray(st, rid, a) ==
    LET size == AsI32(array_len(st, rid) % Word)
        n == IF size > 0 THEN size ELSE 0
    IN [store |-> Put(st, a, [i \in 1 .. n |-> st[rid].elems[i]]),
        rids |-> a,
        calls |-> <<[Call("array_len", rid, Live(st, rid)) EXCEPT
                        !.arg = array_len(st, rid) % Word]>>
                  \o [i \in 1 .. n |->
                        [Call("array_get", rid, Live(st, rid)) EXCEPT !.arg = i - 1]]]

\* toArray() on a wrapper that is not an Array: the host's outcome; when
\* array_len returns, it reports no elements
HostObject_toArray ==
    /\ Tick
    /\ \E w \in Objs :
          LET rid == objs[w].rid
              fits == IsKind(store, rid, ObjectType.Array)
              size == AsI32(array_len(store, rid) % Word)
          IN /\ Use(w)
             /\ \E out \in Outcomes(fits) :
                  IF out = "abort"
                  THEN Abort("toArray", w, StdCall("array_len", rid))
                  ELSE \E a \in Allocs(store, IF size > 0 THEN size ELSE 0) :
                         LET r == toArray(store, rid, a) IN
                         /\ store' = r.store
                         /\ objs' = objs \o [i \in DOMAIN r.rids |->
                                                Wrapper(r.store, r.rids[i])]
                         /\ trace' = r.calls
                         /\ last' = [op |-> "toArray", w |-> w, st |-> "ok",
                                     val |-> 0, flag |-> FALSE, seq |-> << >>,
                                     values |-> r.rids]
    /\ UNCHANGED <<netstore, reqs>>

\* keys(): new HostObject(object_keys(this.rid)).toArray(), then toString()
\* of each; ord is the host's enumeration, a the descriptors it allocates
keys(st, rid, ord, a) ==
    LET arr == toArrayOf(st, a, [i \in DOMAIN ord |-> StringV(ord[i])])
        strs == [i \in DOMAIN ord |->
                    toString(arr.store, arr.rids[i], Len(ord[i]) % Word)]
    IN [store |-> arr.store,
        keyStrings |-> [i \in DOMAIN ord |-> strs[i].val],
        calls |-> <<Call("object_keys", rid, Live(st, rid))>> \o arr.calls
                  \o [i \in 1 .. 2 * Len(ord) |->
                        strs[(i + 1) \div 2].calls[2 - (i % 2)]]]

\* values(): new HostObject(object_values(this.rid)).toArray()
values(st, rid, ord, a) ==
    LET arr == toArrayOf(st, a, [i \in DOMAIN ord |-> st[rid].fields[ord[i]]])
    IN [store |-> arr.store, rids |-> arr.rids,
        calls |-> <<Call("object_values", rid, Live(st, rid))>> \o arr.calls]

\* result.set(k, v) of Map<string, HostObject>
MapSet(m, k, v) == [x \in (DOMAIN m) \cup {k} |-> IF x = k THEN v ELSE m[x]]

\* the loop pairing every key with the first value
RECURSIVE ZipFirst(_, _, _)
ZipFirst(m, ks, vs) ==
    IF ks = << >> THEN m
    ELSE ZipFirst(MapSet(m, Head(ks), Head(vs)), Tail(ks), vs)

\* the loop of toObject(): result.set(keys[i], values[i]) for i < keys.length
RECURSIVE Zip(_, _, _)
Zip(m, ks, vs) ==
    IF ks = << >> THEN m
    ELSE Zip(MapSet(m, Head(ks), Head(vs)), Tail(ks), Tail(vs))

\* toObject(): keys(), values(), then the zip; the host enumerates the
\* object in the order ord both times and allocates the descriptors a
toObject(st, rid, ord, a) ==
    LET n == Len(ord)
        ks == keys(st, rid, ord, SubSeq(a, 1, n + 1))
        vs == values(ks.store, rid, ord, SubSeq(a, n + 2, 2 * n + 2))
    IN [store |-> vs.store, keys |-> ks.keyStrings, values |-> vs.rids,
        map |-> Zip(<< >>, ks.keyStrings, vs.rids),
        calls |-> ks.calls \o vs.calls]

\* toObject() on a wrapper that is not an Object: the host's outcome; when it
\* returns, both enumerations are empty
HostObject_toObject ==
    /\ Tick
    /\ \E w \in Objs :
          LET rid == objs[w].rid
              fits == IsKind(store, rid, ObjectType.Object)
          IN /\ Use(w)
             /\ \E out \in Outcomes(fits) :
                  IF out = "abort"
                  THEN Abort("toObject", w, StdCall("object_keys", rid))
                  ELSE \E ord \in Orders(IF fits THEN store[rid].fields ELSE << >>) :
                       \E a \in Allocs(store, 2 * Len(ord) + 2) :
                         LET r == toObject(store, rid, ord, a) IN
                         /\ store' = r.store
                         /\ objs' = objs \o [i \in DOMAIN r.values |->
                                                Wrapper(r.store, r.values[i])]
                         /\ trace' = r.calls
                         /\ last' = [op |-> "toObject", w |-> w, st |-> "ok",
                                     val |-> 0, flag |-> FALSE, seq |-> << >>,
                                     keys |-> r.keys, values |-> r.values,
                                     map |-> r.map]
    /\ UNCHANGED <<netstore, reqs>>

\* ---- Memory
\* copy() that wraps this.rid again instead of asking the host for a copy
HostObject_copy_alias ==
    /\ Tick
    /\ \E w \in Objs :
          /\ Use(w)
          /\ objs' = Append(objs, [Wrapper(store, objs[w].rid) EXCEPT !.of = w])
          /\ last' = Ret("copy", Len(objs) + 1, "ok", objs[w].rid)
          /\ trace' = << >>
    /\ UNCHANGED <<store, netstore, reqs>>

\* copy(): new HostObject(copy(this.rid))
HostObject_copy ==
    /\ Tick
    /\ \E w \in Objs :
          LET rid == objs[w].rid IN
          /\ Use(w)
          /\ YieldFrom("copy", StdCall("copy", rid), store,
                       IF Live(store, rid) THEN store[rid] ELSE NullV, w)
    /\ UNCHANGED <<netstore, reqs>>

\* close(): destroy(this.rid)
HostObject_close ==
    /\ Tick
    /\ \E w \in Objs :
          /\ Use(w)
          /\ store' = destroy(store, objs[w].rid)
          /\ objs' = [objs EXCEPT ![w].closed = TRUE]
          /\ last' = Ret("close", w, "ok", 0)
          /\ trace' = <<StdCall("destroy", objs[w].rid)>>
    /\ UNCHANGED <<netstore, reqs>>

\* --------------------------------------------------- net.ts: class Request
\* host side of the net group; a call on a descriptor that names nothing
\* does nothing
NetLive(net, h) == h \in NetRidSet /\ net[h].live
\* the descriptor is the one instance i obtained from init and has not released
Own(net, h, i) == NetLive(net, h) /\ net[h].owner = i

\* the descriptors init may return: any released one, or the next new one
FreeNetRids(net) ==
    {h \in NetRidSet : net[h] = NoRequest}
    \cup {h \in NetRidSet : net[h] = FreshRequest
                            /\ \A q \in NetRidSet : net[q] = FreshRequest => h <= q}

net_init(net, h, i, method) ==
    [net EXCEPT ![h] = [NoRequest EXCEPT !.live = TRUE, !.owner = i, !.method = method]]
net_set_url(net, h, value) ==
    IF NetLive(net, h) THEN [net EXCEPT ![h].url = value] ELSE net
net_set_header(net, h, key, value) ==
    IF NetLive(net, h)
    THEN [net EXCEPT ![h].headers =
            [k \in (DOMAIN @) \cup {key} |-> IF k = key THEN value ELSE @[k]]]
    ELSE net
net_set_body(net, h, value) ==
    IF NetLive(net, h) THEN [net EXCEPT ![h].body = value] ELSE net
net_send(net, h, resp) ==
    IF NetLive(net, h) THEN [net EXCEPT ![h].sends = @ + 1, ![h].resp = resp] ELSE net
net_close(net, h) ==
    IF NetLive(net, h) THEN [net EXCEPT ![h] = NoRequest] ELSE net
\* get_data_size(req): the size of the response; for a descriptor that names
\* nothing the host's answer u
get_data_size(net, h, u) == IF NetLive(net, h) THEN Len(net[h].resp) % Word ELSE u
\* get_data(req, buffer, size): the buffer after the host has filled it
get_data(net, h, size) ==
    IF NetLive(net, h)
    THEN [n \in 1 .. size |-> IF n <= Len(net[h].resp) THEN net[h].resp[n] ELSE 0]
    ELSE [n \in 1 .. size |-> 0]

\* A Request instance: its two fields, and for the record the host calls it
\* has issued so far: transmits (sends), releases (closes), response reads
\* issued before any transmit (early), direct send() calls and accessor calls
\* that returned.
Request_constructor(req) ==
    [req |-> req, sent |-> FALSE,
     sends |-> 0, closes |-> 0, early |-> 0, direct |-> 0, acc |-> 0]

Reqs == 1 .. Len(reqs)

\* The running method: the host tables, the instance, the host calls issued
\* so far by this public operation, and the value to return.
Ctx(i) ==
    [net |-> netstore, store |-> store, me |-> reqs[i], tr |-> << >>,
     val |-> 0, buf |-> << >>]

Log(c, i, fn) == Append(c.tr, Call(fn, c.me.req, Own(c.net, c.me.req, i)))

\* a response read: get_data_size, get_data, json, html
LogRead(c, i, fn) ==
    [c EXCEPT !.tr = Log(c, i, fn),
              !.me.early = IF c.me.sends = 0 THEN @ + 1 ELSE @]

\* set url(value): set_url(this.req, encode(value), byteLength(value))
Request_set_url(c, i, value) ==
    [c EXCEPT !.net = net_set_url(c.net, c.me.req,
                                  SubSeq(UTF8encode(value), 1, UTF8byteLength(value))),
              !.tr = Log(c, i, "set_url")]

Request_setHeader(c, i, key, value) ==
    [c EXCEPT !.net = net_set_header(c.net, c.me.req, UTF8encode(key), UTF8encode(value)),
              !.tr = Append(c.tr, [Call("set_header", c.me.req, Own(c.net, c.me.req, i))
                                     EXCEPT !.key = UTF8encode(key),
                                            !.data = UTF8encode(value)])]

\* set body(value) that arms the instance for another transmit
Request_set_body_rearming(c, i, value) ==
    LET buf == IF value.t = "string" THEN UTF8encode(value.v) ELSE value.v IN
    [c EXCEPT !.net = net_set_body(c.net, c.me.req, SubSeq(buf, 1, Len(buf))),
              !.tr = Log(c, i, "set_body"),
              !.me.sent = FALSE]

\* set body(value): a string is encoded first; set_body(this.req, value, value.byteLength)
Request_set_body(c, i, value) ==
    LET buf == IF value.t = "string" THEN UTF8encode(value.v) ELSE value.v IN
    [c EXCEPT !.net = net_set_body(c.net, c.me.req, SubSeq(buf, 1, Len(buf))),
              !.tr = Log(c, i, "set_body")]

\* send() that transmits and forgets to mark the instance
Request_send_unmarked(c, i, resp) ==
    [c EXCEPT !.net = net_send(c.net, c.me.req, resp),
              !.tr = Log(c, i, "send"),
              !.me.sends = @ + 1]

\* send() that does nothing on an instance already marked sent
Request_send_gated(c, i, resp) ==
    IF c.me.sent THEN c
    ELSE [c EXCEPT !.net = net_send(c.net, c.me.req, resp),
                   !.tr = Log(c, i, "send"),
                   !.me.sends = @ + 1,
                   !.me.sent = TRUE]

\* send(): send(this.req); this.sent = true
Request_send(c, i, resp) ==
    [c EXCEPT !.net = net_send(c.net, c.me.req, resp),
              !.tr = Log(c, i, "send"),
              !.me.sends = @ + 1,
              !.me.sent = TRUE]

\* close() that also resets the instance for another round
Request_close_resets(c, i) ==
    [c EXCEPT !.net = net_close(c.net, c.me.req),
              !.tr = Log(c, i, "close"),
              !.me.closes = @ + 1,
              !.me.sent = FALSE]

\* close(): close(this.req)
Request_close(c, i) ==
    [c EXCEPT !.net = net_close(c.net, c.me.req),
              !.tr = Log(c, i, "close"),
              !.me.closes = @ + 1]

\* data() that transmits without looking at `sent`
Request_data_ungated(c, i, resp, u) ==
    LET c1 == Request_send(c, i, resp)
        usize == get_data_size(c1.net, c1.me.req, u)
        size == AsI32(usize)
        c2 == [LogRead(c1, i, "get_data_size") EXCEPT !.tr[Len(c1.tr) + 1].arg = usize]
    IN IF size <= 0 THEN [c2 EXCEPT !.buf = << >>]
       ELSE LET buff == get_data(c2.net, c2.me.req, size)
                c3 == LogRead(c2, i, "get_data")
                c4 == Request_close(c3, i)
            IN [c4 EXCEPT !.buf = buff]

\* data(): resp is the response the transport delivers if this call
\* transmits, u the host's size answer for a descriptor that names nothing;
\* the get_data_size call is recorded with the size the host reported
Request_data(c, i, resp, u) ==
    LET c1 == IF ~c.me.sent THEN Request_send(c, i, resp) ELSE c
        usize == get_data_size(c1.net, c1.me.req, u)
        size == AsI32(usize)
        c2 == [LogRead(c1, i, "get_data_size") EXCEPT !.tr[Len(c1.tr) + 1].arg = usize]
    IN IF size <= 0 THEN [c2 EXCEPT !.buf = << >>]
       ELSE LET buff == get_data(c2.net, c2.me.req, size)
                c3 == LogRead(c2, i, "get_data")
                c4 == Request_close(c3, i)
            IN [c4 EXCEPT !.buf = buff]

\* string(): decode(this.data()); this.close()
Request_string(c, i, resp, u) ==
    LET c1 == Request_data(c, i, resp, u)
        stringValue == UTF8decode(c1.buf)
        c2 == Request_close(c1, i)
    IN [c2 EXCEPT !.buf = stringValue]

\* json() / html() that transmit without looking at `sent`
View_ungated(c, i, fn, resp, rid, resource) ==
    LET c1 == Request_send(c, i, resp)
        c2 == [LogRead(c1, i, fn) EXCEPT
                 !.store = IF rid = NoRid THEN @ ELSE [@ EXCEPT ![rid] = resource]]
        c3 == Request_close(c2, i)
    IN [c3 EXCEPT !.val = rid]

\* json() / html() that release the request before asking for the view
View_closing_first(c, i, fn, resp, rid, resource) ==
    LET c1 == IF ~c.me.sent THEN Request_send(c, i, resp) ELSE c
        c2 == Request_close(c1, i)
        c3 == [LogRead(c2, i, fn) EXCEPT
                 !.store = IF rid = NoRid THEN @ ELSE [@ EXCEPT ![rid] = resource]]
    IN [c3 EXCEPT !.val = rid]

\* json() / html(): rid is the descriptor the host returns for resource
View(c, i, fn, resp, rid, resource) ==
    LET c1 == IF ~c.me.sent THEN Request_send(c, i, resp) ELSE c
        c2 == [LogRead(c1, i, fn) EXCEPT
                 !.store = IF rid = NoRid THEN @ ELSE [@ EXCEPT ![rid] = resource]]
        c3 == Request_close(c2, i)
    IN [c3 EXCEPT !.val = rid]

Request_json(c, i, resp, rid, resource) == View(c, i, "json", resp, rid, resource)

Request_html(c, i, resp, rid, resource) == View(c, i, "html", resp, rid, resource)

\* set headers(value) that passes values[0] with every key
RECURSIVE SetHeadersWith(_, _, _, _)
SetHeadersWith(c, i, value, v) ==
    IF value = << >> THEN c
    ELSE SetHeadersWith(Request_setHeader(c, i, Head(value)[1], v), i, Tail(value), v)

Request_set_headers_first(c, i, value) ==
    IF value = << >> THEN c ELSE SetHeadersWith(c, i, value, value[1][2])

\* set headers(value): setHeader(keys[i], values[i]) for each entry, in the
\* map's order; the map is given as its sequence of <<key, value>> entries
RECURSIVE Request_set_headers(_, _, _)
Request_set_headers(c, i, value) ==
    IF value = << >> THEN c
    ELSE Request_set_headers(Request_setHeader(c, i, Head(value)[1], Head(value)[2]),
                             i, Tail(value))

\* get url() that returns the string without closing the temporary
Request_get_url_leaky(c, i, rid, ulen) ==
    LET h == c.me.req
        st1 == IF rid = NoRid THEN c.store
               ELSE [c.store EXCEPT ![rid] = StringV(c.net[h].url)]
        r == toString(st1, rid, ulen)
    IN [c EXCEPT !.store = st1,
                 !.tr = Log(c, i, "get_url") \o r.calls,
                 !.buf = r.val]

\* get url(): new ValueRef(get_url(this.req)).toString(), then close();
\* rid is the descriptor the host returns, ulen what string_len reports
Request_get_url(c, i, rid, ulen) ==
    LET h == c.me.req
        st1 == IF rid = NoRid THEN c.store
               ELSE [c.store EXCEPT ![rid] = StringV(c.net[h].url)]
        r == toString(st1, rid, ulen)
    IN [c EXCEPT !.store = destroy(st1, rid),
                 !.tr = Log(c, i, "get_url") \o r.calls
                        \o <<Call("destroy", rid, Live(st1, rid))>>,
                 !.buf = r.val]

\* RequestOptions: each field is given or not; a given string is truthy
\* when it is not empty, a given Map or ArrayBuffer always
Truthy(field) ==
    /\ field.given
    /\ (field.t = "string" => field.v /= << >>)

Absent == [given |-> FALSE, t |-> "none", v |-> << >>]
Str(s) == [given |-> TRUE, t |-> "string", v |-> s]
Buf(b) == [given |-> TRUE, t |-> "buffer", v |-> b]
Map(entries) == [given |-> TRUE, t |-> "map", v |-> entries]
Options(url, headers, body) ==
    [given |-> TRUE, url |-> url, headers |-> headers, body |-> body]
NoOptions == [given |-> FALSE, url |-> Absent, headers |-> Absent, body |-> Absent]

OptionSet ==
    {NoOptions,
     Options(Absent, Absent, Absent),
     Options(Str(<< >>), Absent, Absent),
     Options(Str(<<117>>), Absent, Absent),
     Options(Absent, Map(<< >>), Absent),
     Options(Absent, Map(<< <<<<97>>, <<120>>>>, <<<<98>>, <<121>>>> >>), Absent),
     Options(Absent, Map(<< <<<<98>>, <<121>>>>, <<<<97>>, <<120>>>> >>), Absent),
     Options(Absent, Absent, Str(<< >>)),
     Options(Absent, Absent, Str(<<233>>)),
     Options(Absent, Absent, Buf(<< >>)),
     Options(Str(<<117>>), Map(<< <<<<97>>, <<120>>>> >>), Buf(<<1, 2>>))}
LifeOptions == {NoOptions, Options(Str(<<117>>), Absent, Absent)}

\* static create(method, options): h is the descriptor init(method) returns
Request_create(net, h, i, method, options) ==
    LET c0 == [net |-> net_init(net, h, i, method), store |-> store,
               me |-> Request_constructor(h),
               tr |-> <<Call("init", h, TRUE)>>, val |-> h, buf |-> << >>]
        c1 == IF options.given /\ Truthy(options.url)
              THEN Request_set_url(c0, i, options.url.v) ELSE c0
        c2 == IF options.given /\ Truthy(options.headers)
              THEN Request_set_headers(c1, i, options.headers.v) ELSE c1
        c3 == IF options.given /\ Truthy(options.body)
              THEN Request_set_body(c2, i, options.body) ELSE c2
    IN c3

\* the state a public operation of instance i leaves
Return(op, i, c) ==
    /\ netstore' = c.net
    /\ store' = c.store
    /\ reqs' = [reqs EXCEPT ![i] = c.me]
    /\ trace' = c.tr
    /\ last' = [Ret(op, i, "ok", c.val) EXCEPT !.seq = c.buf]


\* the answers the host may give for the size of a released request
DeadSizes == {0, Word - 1}
\* the choices that matter to a call of instance i: a response only if the
\* call can transmit, a size answer only if the descriptor names nothing
RespFor(i) == IF reqs[i].sent THEN {<< >>} ELSE RespSet
SizesFor(i) == IF NetLive(netstore, reqs[i].req) THEN {0} ELSE DeadSizes

Request_create_call(optionSet) ==
    /\ Tick
    /\ Len(reqs) < MaxReq
    /\ \E method \in MethodSet, options \in optionSet :
        \E h \in FreeNetRids(netstore) :
          LET i == Len(reqs) + 1
              c == Request_create(netstore, h, i, method, options)
          IN /\ netstore' = c.net
             /\ reqs' = Append(reqs, c.me)
             /\ trace' = c.tr
             /\ last' = [op |-> "create", w |-> i, st |-> "ok", val |-> h,
                         flag |-> FALSE, seq |-> << >>,
                         method |-> method, options |-> options]
    /\ UNCHANGED <<store, objs, misuse>>

Request_send_call ==
    /\ Tick
    /\ \E i \in Reqs, resp \in RespSet :
          Return("send", i, [Request_send(Ctx(i), i, resp) EXCEPT !.me.direct = @ + 1])
    /\ UNCHANGED <<objs, misuse>>

Accessed(c) == [c EXCEPT !.me.acc = @ + 1]

Request_data_call ==
    /\ Tick
    /\ \E i \in Reqs : \E resp \in RespFor(i), u \in SizesFor(i) :
          Return("data", i, Accessed(Request_data(Ctx(i), i, resp, u)))
    /\ UNCHANGED <<objs, misuse>>

Request_string_call ==
    /\ Tick
    /\ \E i \in Reqs : \E resp \in RespFor(i), u \in SizesFor(i) :
          Return("string", i, Accessed(Request_string(Ctx(i), i, resp, u)))
    /\ UNCHANGED <<objs, misuse>>

\* what the host parses: a live request's response, else nothing
Parsed(i, results) == IF NetLive(netstore, reqs[i].req) THEN results ELSE {NullV}

Request_json_call ==
    /\ Tick
    /\ \E i \in Reqs : \E resp \in RespFor(i) :
        \E resource \in Parsed(i, ParseSet) :
        \E rid \in FreeRids(store) \cup (IF resource = NullV THEN {NoRid} ELSE {}) :
          /\ Return("json", i, Accessed(Request_json(Ctx(i), i, resp, rid, resource)))
          /\ objs' = Append(objs, Wrapper(store', rid))
    /\ UNCHANGED misuse

Request_html_call ==
    /\ Tick
    /\ \E i \in Reqs : \E resp \in RespFor(i) :
        \E resource \in Parsed(i, {NodeV}) :
        \E rid \in FreeRids(store) \cup (IF resource = NullV THEN {NoRid} ELSE {}) :
          /\ Return("html", i, Accessed(Request_html(Ctx(i), i, resp, rid, resource)))
          /\ objs' = Append(objs, Wrapper(store', rid))
    /\ UNCHANGED misuse

Request_close_call ==
    /\ Tick
    /\ \E i \in Reqs : Return("close", i, Request_close(Ctx(i), i))
    /\ UNCHANGED <<objs, misuse>>

\* ---- the builders
UrlSet == {<< >>, <<117>>}
HeaderSet == {<< <<<<97>>, <<120>>>> >>,
              << <<<<97>>, <<120>>>>, <<<<98>>, <<121>>>> >>,
              << <<<<98>>, <<121>>>>, <<<<97>>, <<120>>>> >>,
              << <<<<98>>, <<121>>>>, <<<<97>>, <<122>>>> >>}
BodySet == {Str(<< >>), Str(<<233>>), Buf(<<1, 2>>)}

Request_set_url_call ==
    /\ Tick
    /\ \E i \in Reqs, value \in UrlSet :
          Return("set url", i, Request_set_url(Ctx(i), i, value))
    /\ UNCHANGED <<objs, misuse>>

Request_setHeader_call ==
    /\ Tick
    /\ \E i \in Reqs, key \in KeySet, value \in UrlSet :
          Return("setHeader", i, Request_setHeader(Ctx(i), i, key, value))
    /\ UNCHANGED <<objs, misuse>>

Request_set_headers_call ==
    /\ Tick
    /\ \E i \in Reqs, value \in HeaderSet :
          LET c == Request_set_headers(Ctx(i), i, value) IN
          /\ netstore' = c.net
          /\ store' = c.store
          /\ reqs' = [reqs EXCEPT ![i] = c.me]
          /\ trace' = c.tr
          /\ last' = [op |-> "set headers", w |-> i, st |-> "ok", val |-> 0,
                      flag |-> FALSE, seq |-> << >>, entries |-> value]
    /\ UNCHANGED <<objs, misuse>>

Request_set_body_call ==
    /\ Tick
    /\ \E i \in Reqs, value \in BodySet :
          Return("set body", i, Request_set_body(Ctx(i), i, value))
    /\ UNCHANGED <<objs, misuse>>

Request_get_url_call ==
    /\ Tick
    /\ \E i \in Reqs :
        \E rid \in IF NetLive(netstore, reqs[i].req) THEN FreeRids(store) ELSE {NoRid} :
        \E ulen \in IF rid = NoRid THEN {0, Word - 1}
                    ELSE {Len(netstore[reqs[i].req].url)} :
          Return("get url", i, Request_get_url(Ctx(i), i, rid, ulen))
    /\ UNCHANGED <<objs, misuse>>

\* --------------------------------------------------- json.ts: class JSON
\* host side: parse(data, length) yields the parsed document, or nothing
\* when the data is not JSON
JsonSet == {Str(<<123, 125>>), Str(<< >>), Buf(<<123, 125>>)}
json_parse(data) == IF data = <<123, 125>> THEN ObjectV(EmptyFields) ELSE NullV

\* static parse(buffer) that gives up (returns null) when the host returns
\* no descriptor
JSON_parse_nullable ==
    /\ Tick
    /\ \E buffer \in JsonSet :
          LET data == IF buffer.t = "string" THEN UTF8encode(buffer.v) ELSE buffer.v
              resource == json_parse(SubSeq(data, 1, Len(data)))
          IN \E rid \in FreeRids(store) \cup (IF resource = NullV THEN {NoRid} ELSE {}) :
                /\ store' = IF rid = NoRid THEN store ELSE [store EXCEPT ![rid] = resource]
                /\ objs' = IF rid = NoRid THEN objs ELSE Append(objs, Wrapper(store', rid))
                /\ last' = [Ret("parse", 0, "ok", rid) EXCEPT !.flag = (rid /= NoRid)]
                /\ trace' = <<[Call("parse", NoRid, FALSE) EXCEPT !.data = data]>>
    /\ UNCHANGED <<misuse, netstore, reqs>>

\* static parse(buffer): a string is encoded first; new JSON(parse(buffer,
\* buffer.byteLength))
JSON_parse ==
    /\ Tick
    /\ \E buffer \in JsonSet :
          LET data == IF buffer.t = "string" THEN UTF8encode(buffer.v) ELSE buffer.v
              resource == json_parse(SubSeq(data, 1, Len(data)))
          IN \E rid \in FreeRids(store) \cup (IF resource = NullV THEN {NoRid} ELSE {}) :
                /\ store' = IF rid = NoRid THEN store ELSE [store EXCEPT ![rid] = resource]
                /\ objs' = Append(objs, Wrapper(store', rid))
                /\ last' = [Ret("parse", 0, "ok", rid) EXCEPT !.flag = TRUE]
                /\ trace' = <<[Call("parse", NoRid, FALSE) EXCEPT !.data = data]>>
    /\ UNCHANGED <<misuse, netstore, reqs>>

\* ---------------------------------------------------- html.ts: class Html
\* host side: a Node resource is the document, or an element with `before`
\* element siblings before it and `after` after it
ElementV(before, after) == [NodeV EXCEPT !.bytes = <<before, after>>]
Before(node) == IF node.bytes = << >> THEN 0 ELSE node.bytes[1]
After(node) == IF node.bytes = << >> THEN 0 ELSE node.bytes[2]
IsNode(st, rid) == typeof_std(st, rid) = NodeV.kind

\* first(rid) / last(rid): the first and last sibling of an element; of a
\* document, the first and last of its elements, if it has any
html_first(st, rid) ==
    IF ~IsNode(st, rid) THEN {NullV}
    ELSE IF st[rid] = NodeV
         THEN {NullV} \cup {ElementV(0, n - 1) : n \in 1 .. MaxSiblings}
         ELSE {ElementV(0, Before(st[rid]) + After(st[rid]))}
html_last(st, rid) ==
    IF ~IsNode(st, rid) THEN {NullV}
    ELSE IF st[rid] = NodeV
         THEN {NullV} \cup {ElementV(n - 1, 0) : n \in 1 .. MaxSiblings}
         ELSE {ElementV(Before(st[rid]) + After(st[rid]), 0)}
\* next(rid) / previous(rid): the adjacent sibling element, or nothing
html_next(st, rid) ==
    IF IsNode(st, rid) /\ After(st[rid]) > 0
    THEN ElementV(Before(st[rid]) + 1, After(st[rid]) - 1) ELSE NullV
html_previous(st, rid) ==
    IF IsNode(st, rid) /\ Before(st[rid]) > 0
    THEN ElementV(Before(st[rid]) - 1, After(st[rid]) + 1) ELSE NullV

\* a navigation call on wrapper w: the host returns a descriptor for
\* resource (for nothing, possibly no descriptor); the method wraps it, after
\* testing its Kind if checked, and returns null otherwise. flag tells
\* whether an Html was returned.
Navigate(op, w, resource, checked) ==
    \E rid \in FreeRids(store) \cup (IF resource = NullV THEN {NoRid} ELSE {}) :
        LET st1 == IF rid = NoRid THEN store ELSE [store EXCEPT ![rid] = resource]
            wraps == ~checked \/ typeof_std(st1, rid) = NodeV.kind
        IN /\ store' = st1
           /\ objs' = IF wraps THEN Append(objs, Wrapper(st1, rid)) ELSE objs
           /\ last' = [Ret(op, w, "ok", rid) EXCEPT !.flag = wraps]
           /\ trace' = <<StdCall(op, objs[w].rid)>>
                        \o (IF checked THEN <<Call("typeof", rid, Live(st1, rid))>>
                            ELSE << >>)

\* static parse(buffer, baseUri?): strings are encoded first; with a base
\* URI (an encoded one is a buffer, so given even when empty)
\* new Html(parse_with_uri(...)), else new Html(parse(buffer, byteLength))
Html_parse ==
    /\ Tick
    /\ \E baseUri \in {Absent, Str(<< >>)} : \E rid \in FreeRids(store) :
          /\ store' = [store EXCEPT ![rid] = NodeV]
          /\ objs' = Append(objs, Wrapper(store', rid))
          /\ last' = [Ret("Html.parse", 0, "ok", rid) EXCEPT !.flag = TRUE]
          /\ trace' = <<Call(IF baseUri.given THEN "parse_with_uri" ELSE "parse",
                             NoRid, FALSE)>>
    /\ UNCHANGED <<misuse, netstore, reqs>>

Html_first ==
    /\ Tick
    /\ \E w \in Objs :
          /\ Use(w)
          /\ \E resource \in html_first(store, objs[w].rid) :
                Navigate("first", w, resource, FALSE)
    /\ UNCHANGED <<netstore, reqs>>

Html_last ==
    /\ Tick
    /\ \E w \in Objs :
          /\ Use(w)
          /\ \E resource \in html_last(store, objs[w].rid) :
                Navigate("last", w, resource, FALSE)
    /\ UNCHANGED <<netstore, reqs>>

\* next() that wraps whatever the host returns, as first() does
Html_next_unchecked ==
    /\ Tick
    /\ \E w \in Objs :
          /\ Use(w)
          /\ Navigate("next", w, html_next(store, objs[w].rid), FALSE)
    /\ UNCHANGED <<netstore, reqs>>

\* next(): rid = next(this.rid); an Html if typeof_std(rid) is Node, else null
Html_next ==
    /\ Tick
    /\ \E w \in Objs :
          /\ Use(w)
          /\ Navigate("next", w, html_next(store, objs[w].rid), TRUE)
    /\ UNCHANGED <<netstore, reqs>>

Html_previous ==
    /\ Tick
    /\ \E w \in Objs :
          /\ Use(w)
          /\ Navigate("previous", w, html_previous(store, objs[w].rid), TRUE)
    /\ UNCHANGED <<netstore, reqs>>

\* host side: a node-set is a Node resource that lists its elements, in
\* document order; select(rid, selector) yields the node-set of the matches
NodeSetV(k) ==
    [NodeV EXCEPT !.flag = TRUE, !.elems = [i \in 1 .. k |-> ElementV(i - 1, k - i)]]
html_select(st, rid) ==
    IF ~IsNode(st, rid) THEN {NullV} ELSE {NodeSetV(k) : k \in 0 .. MaxSiblings}

\* select(selector): new Html(select(this.rid, encode(selector), byteLength))
Html_select ==
    /\ Tick
    /\ \E w \in Objs :
          /\ Use(w)
          /\ \E resource \in html_select(store, objs[w].rid) :
                Navigate("select", w, resource, FALSE)
    /\ UNCHANGED <<netstore, reqs>>

\* array() whose loop reads the indices from the last down to the first
array_reversed(st, rid, a) ==
    LET elems == IF IsNode(st, rid) THEN st[rid].elems ELSE << >>
        size == AsI32(Len(elems) % Word)
        n == IF size > 0 THEN size ELSE 0
    IN [store |-> Put(st, a, <<ArrayV(elems)>> \o [i \in 1 .. n |-> elems[n + 1 - i]]),
        rids |-> Tail(a),
        calls |-> <<Call("array", rid, Live(st, rid)),
                    [Call("array_len", a[1], a[1] /= NoRid) EXCEPT
                        !.arg = Len(elems) % Word]>>
                  \o [i \in 1 .. n |->
                        [Call("array_get", a[1], TRUE) EXCEPT !.arg = n - i]]]

\* array(): arr = array(this.rid), the host's Array of the elements of the
\* node-set, put at a[1]; size = array_len(arr) as i32; then
\* new Html(array_get(arr, i)) for i < size, which puts element i at a[i + 2]
array(st, rid, a) ==
    LET elems == IF IsNode(st, rid) THEN st[rid].elems ELSE << >>
        size == AsI32(Len(elems) % Word)
        n == IF size > 0 THEN size ELSE 0
    IN [store |-> Put(st, a, <<ArrayV(elems)>> \o [i \in 1 .. n |-> elems[i]]),
        rids |-> Tail(a),
        calls |-> <<Call("array", rid, Live(st, rid)),
                    [Call("array_len", a[1], a[1] /= NoRid) EXCEPT
                        !.arg = Len(elems) % Word]>>
                  \o [i \in 1 .. n |->
                        [Call("array_get", a[1], TRUE) EXCEPT !.arg = i - 1]]]

\* array() on a wrapper: for something that lists no elements the host
\* returns an empty Array or no descriptor
Html_array ==
    /\ Tick
    /\ \E w \in Objs :
          LET rid == objs[w].rid
              elems == IF IsNode(store, rid) THEN store[rid].elems ELSE << >>
          IN /\ Use(w)
             /\ \E a \in Allocs(store, 1 + Len(elems))
                          \cup (IF elems = << >> THEN {<<NoRid>>} ELSE {}) :
                   LET r == array(store, rid, a) IN
                   /\ store' = r.store
                   /\ objs' = objs \o [i \in DOMAIN r.rids |->
                                          Wrapper(r.store, r.rids[i])]
                   /\ trace' = r.calls
                   /\ last' = [op |-> "Html.array", w |-> w, st |-> "ok",
                               val |-> a[1], flag |-> FALSE, seq |-> << >>,
                               values |-> r.rids]
    /\ UNCHANGED <<netstore, reqs>>

\* close(): destroy(this.rid)
Html_close ==
    /\ Tick
    /\ \E w \in Objs :
          /\ Use(w)
          /\ store' = destroy(store, objs[w].rid)
          /\ objs' = [objs EXCEPT ![w].closed = TRUE]
          /\ last' = Ret("close", w, "ok", 0)
          /\ trace' = <<StdCall("destroy", objs[w].rid)>>
    /\ UNCHANGED <<netstore, reqs>>

\* ------------------------------------------------------- class DeepLink
\* A Manga or Chapter as DeepLink sees it: null, or an object whose `value`
\* getter yields a Handle
NoComponent == [given |-> FALSE, value |-> 0]
Component(h) == [given |-> TRUE, value |-> h]
ComponentSet == {NoComponent} \cup {Component(h) : h \in 0 .. 1}

Links == 1 .. Len(links)

\* constructor(manga, chapter)
DeepLink_constructor ==
    /\ Step
    /\ \E manga \in ComponentSet, chapter \in ComponentSet :
          /\ links' = Append(links, [manga |-> manga, chapter |-> chapter])
          /\ last' = Ret("DeepLink", Len(links) + 1, "ok", 0)
          /\ trace' = << >>
    /\ UNCHANGED <<store, objs, misuse, netstore, reqs>>

\* component?.value: the Handle of a component that is there, else nothing,
\* which is 0 where an i32 is tested
OptionalValue(component) == IF component.given THEN component.value ELSE 0

\* value ? value : -1
OrMinusOne(value) == IF value /= 0 THEN value ELSE 0 - 1

\* get value(): create_deeplink(manga ? manga : -1, chapter ? chapter : -1);
\* the call is recorded with its two arguments (h and value), and the host
\* returns the descriptor of the deep link it creates
DeepLink_value ==
    /\ Step
    /\ \E d \in Links : \E rid \in FreeRids(store) :
          LET manga == OptionalValue(links[d].manga)
              chapter == OptionalValue(links[d].chapter)
          IN /\ store' = [store EXCEPT ![rid] =
                            [NullV EXCEPT !.kind = 9,
                                          !.bytes = <<OrMinusOne(manga),
                                                      OrMinusOne(chapter)>>]]
             /\ last' = Ret("DeepLink.value", d, "ok", rid)
             /\ trace' = <<[Call("create_deeplink", OrMinusOne(manga), FALSE)
                              EXCEPT !.value = OrMinusOne(chapter)]>>
    /\ UNCHANGED <<links, objs, misuse, netstore, reqs>>

\* ------------------------------------------- the request pipeline: lifecycle
Empty ==
    /\ store = [r \in RidSet |-> Fresh]
    /\ objs = << >>
    /\ last = Ret("none", 0, "ok", 0)
    /\ misuse = FALSE
    /\ nops = 0
    /\ netstore = [h \in NetRidSet |-> FreshRequest]
    /\ reqs = << >>
    /\ trace = << >>
    /\ links = << >>

InitNet == Empty /\ opsBound = MaxNetOps

NextNet ==
    \/ Request_create_call(LifeOptions)
    \/ Request_send_call
    \/ Request_data_call
    \/ Request_string_call
    \/ Request_json_call
    \/ Request_html_call
    \/ Request_close_call

SpecNet == InitNet /\ [][NextNet]_vars

\* ------------------------------------------- the request pipeline: builders
NextNetCfg ==
    \/ Request_create_call(OptionSet)
    \/ Request_set_url_call
    \/ Request_setHeader_call
    \/ Request_set_headers_call
    \/ Request_set_body_call
    \/ Request_get_url_call
    \/ Request_send_call
    \/ Request_close_call

InitNetCfg == Empty /\ opsBound = MaxCfgOps

SpecNetCfg == InitNetCfg /\ [][NextNetCfg]_vars

\* ------------------------------------------------------- the parsed views
InitView == Empty /\ opsBound = MaxViewOps

NextView ==
    \/ Request_create_call(LifeOptions)
    \/ Request_json_call
    \/ Request_html_call
    \/ JSON_parse
    \/ Html_parse
    \/ Html_first
    \/ Html_last
    \/ Html_next
    \/ Html_previous
    \/ Html_close

SpecView == InitView /\ [][NextView]_vars

\* ------------------------------------------------- the value bridge alone
InitStd == Empty /\ opsBound = MaxOps

NextStd ==
    \/ HostObject_null
    \/ HostObject_array
    \/ HostObject_object
    \/ HostObject_string
    \/ HostObject_integer
    \/ HostObject_float
    \/ HostObject_bool
    \/ HostObject_type
    \/ HostObject_get
    \/ HostObject_set
    \/ HostObject_remove
    \/ HostObject_getAt
    \/ HostObject_setAt
    \/ HostObject_removeAt
    \/ HostObject_push
    \/ HostObject_toInteger
    \/ HostObject_toFloat
    \/ HostObject_toBool
    \/ HostObject_toString
    \/ HostObject_copy
    \/ HostObject_close

SpecStd == InitStd /\ [][NextStd]_vars

\* ------------------------------------------- the value bridge: collections
\* The state after constructors and mutators have left the resources
\* `held` at descriptors 0, 1, ... with one wrapper each, and `released`
\* further descriptors were handed out and released again.
InitWith(held, released) ==
    /\ store = [r \in 0 .. (MaxCollRid - 1) |->
                  IF r < Len(held) THEN held[r + 1]
                  ELSE IF r < Len(held) + released THEN Dead ELSE Fresh]
    /\ objs = [w \in DOMAIN held |->
                 [Wrapper(store, w - 1) EXCEPT
                    !.src = IF held[w].kind = ObjectType.String
                            THEN <<UTF8decode(held[w].bytes)>> ELSE << >>,
                    !.int = IF held[w].kind = ObjectType.Int
                            THEN <<held[w].num>> ELSE << >>]]
    /\ last = Ret("none", 0, "ok", 0)
    /\ misuse = FALSE
    /\ nops = 0
    /\ opsBound = MaxCollOps
    /\ netstore = [h \in NetRidSet |-> FreshRequest]
    /\ reqs = << >>
    /\ trace = << >>
    /\ links = << >>

ValueSet == {IntV(7), StringV(<<97>>)}

\* arrays: array() and one of integer(7), string("a"), pushed or not
InitArr ==
    \E value \in ValueSet : \E elems \in {<< >>, <<value>>} :
        InitWith(<<ArrayV(elems), value>>, 0)

NextArr ==
    \/ HostObject_getAt
    \/ HostObject_setAt
    \/ HostObject_removeAt
    \/ HostObject_push
    \/ HostObject_toArray
    \/ HostObject_close

SpecArr == InitArr /\ [][NextArr]_vars

\* objects: object() and a value, set under the key "a" or not
InitObj ==
    \E value \in ValueSet : \E fields \in {EmptyFields, [k \in {<<97>>} |-> value]} :
        InitWith(<<ObjectV(fields), value>>, 0)

NextObj ==
    \/ HostObject_get
    \/ HostObject_set
    \/ HostObject_remove
    \/ HostObject_toObject
    \/ HostObject_close

SpecObj == InitObj /\ [][NextObj]_vars

\* copies: an array and an object that hold a value whose own wrapper was
\* closed
InitCopy ==
    \E value \in ValueSet :
        InitWith(<<ArrayV(<<value>>), ObjectV([k \in {<<97>>} |-> value])>>, 1)

NextCopy ==
    \/ HostObject_copy
    \/ HostObject_set
    \/ HostObject_remove
    \/ HostObject_setAt
    \/ HostObject_removeAt
    \/ HostObject_push
    \/ HostObject_close

SpecCopy == InitCopy /\ [][NextCopy]_vars

\* ------------------------------------------------------ parsed views: sets
\* a parsed document, and node-sets selected from it
InitSel == InitWith(<<NodeV>>, 0)

NextSel ==
    \/ Html_select
    \/ Html_array
    \/ Html_close

SpecSel == InitSel /\ [][NextSel]_vars

\* ------------------------------------------------------------- deep links
InitLink == Empty /\ opsBound = MaxLinkOps

NextLink ==
    \/ DeepLink_constructor
    \/ DeepLink_value

SpecLink == InitLink /\ [][NextLink]_vars

\* ================================================================ properties
CountCalls(tr, fn) == Cardinality({k \in DOMAIN tr : tr[k].fn = fn})
AccessorOps == {"data", "string", "json", "html"}
ReadFns == {"get_data_size", "get_data", "json", "html"}

C2_AccessorsGateTransmit ==
    \A i \in Reqs :
        (reqs[i].direct = 0 /\ reqs[i].acc >= 1) =>
            (reqs[i].sends = 1 /\ reqs[i].early = 0)

C2_Witness ==
    \E i \in Reqs :
        /\ reqs[i].direct = 0 /\ reqs[i].acc >= 2 /\ reqs[i].sends = 1
        /\ last.op \in AccessorOps /\ last.w = i
        /\ CountCalls(trace, "send") = 0

\* C3: when data(), string(), json() or html() returns, the request Handle
\* has been released (close(req) was issued), whatever the response, an
\* empty one included.
C3_AccessorReleases ==
    last.op \in AccessorOps => reqs[last.w].closes >= 1

\* C4: a single call of a response accessor never issues close(req) twice on
\* the request Handle (the Handle dies once; that it dies at all is C3).
C4_NeverClosedTwice ==
    last.op \in AccessorOps => CountCalls(trace, "close") <= 1

\* C5: once one accessor has returned on a Request, every later accessor
\* call on that instance issues its host response reads on an already
\* released request Handle, and does not transmit again.
C5_LaterAccessorOnReleased ==
    (last.op \in AccessorOps /\ reqs[last.w].acc >= 2) =>
        /\ \A k \in DOMAIN trace : trace[k].fn \in ReadFns => ~trace[k].live
        /\ CountCalls(trace, "send") = 0

\* C6: `sent` is false on a Request just constructed, and no operation ever
\* sets it back from true to false.
C6_SentMonotone ==
    [][/\ \A i \in Reqs : reqs[i].sent => reqs'[i].sent
       /\ \A i \in (1 .. Len(reqs')) \ Reqs : ~reqs'[i].sent]_vars

C6_Witness ==
    \E i \in Reqs :
        /\ reqs[i].sent /\ reqs[i].closes >= 1
        /\ last.op = "close" /\ last.w = i
        /\ Len(reqs) > i

\* C7: in every reachable state `sent` is true if and only if the transmit
\* call has been issued at least once for that instance.
C7_SentIffTransmitted == \A i \in Reqs : reqs[i].sent <=> (reqs[i].sends >= 1)

C7_Witness ==
    /\ \E i \in Reqs : reqs[i].sent /\ reqs[i].sends >= 1 /\ reqs[i].direct = 0
    /\ \E i \in Reqs : ~reqs[i].sent /\ reqs[i].sends = 0 /\ reqs[i].closes >= 1

\* C8: Request.create(method, options) issues init(method) exactly once,
\* applies every option that was supplied exactly once (url by set_url, each
\* header by set_header, body by set_body), issues no transmit call and
\* returns a Request whose `sent` is false.
Supplied(options, field) == options.given /\ field.given
C8_CreateAppliesOptions ==
    last.op = "create" =>
        LET o == last.options IN
        /\ CountCalls(trace, "init") = 1
        /\ CountCalls(trace, "set_url") = IF Supplied(o, o.url) THEN 1 ELSE 0
        /\ CountCalls(trace, "set_header") =
              IF Supplied(o, o.headers) THEN Len(o.headers.v) ELSE 0
        /\ CountCalls(trace, "set_body") = IF Supplied(o, o.body) THEN 1 ELSE 0
        /\ CountCalls(trace, "send") = 0
        /\ ~reqs[last.w].sent

\* C9: reading `type` on the wrapper a constructor null(), array(),
\* object(), string(s), integer(n), float(x) or bool(b) has just returned
\* yields the Kind of that constructor.
ConstructorKind ==
    [null |-> ObjectType.Null, array |-> ObjectType.Array,
     object |-> ObjectType.Object, string |-> ObjectType.String,
     integer |-> ObjectType.Int, float |-> ObjectType.Float,
     bool |-> ObjectType.Bool]
C9_TypeAfterConstructor ==
    last.op \in DOMAIN ConstructorKind => type(last.w) = ConstructorKind[last.op]

C9_Witness ==
    /\ last.op = "integer" /\ type(last.w) = ObjectType.Int
    /\ \E w \in Objs : type(w) = ObjectType.String
    /\ \E w \in Objs : type(w) = ObjectType.Array

\* C10: as long as no wrapper is used after its own close(), `type` of every
\* wrapper that has not been closed returns the Kind it had when the wrapper
\* was obtained, whatever operations ran on it or on other Handles.
C10_KindFixed ==
    ~misuse => \A w \in Objs : ~objs[w].closed => type(w) = objs[w].kind0

C10_Witness ==
    /\ ~misuse
    /\ last.op = "close"
    /\ \E w \in Objs, v \in Objs :
          /\ ~objs[w].closed /\ objs[v].closed
          /\ objs[w].kind0 = ObjectType.Array
          /\ type(w) = ObjectType.Array

\* C11: string(s) then toString() returns s, for every s of the input set,
\* the empty string included (the wrapper not closed and no wrapper used after
\* its close()); and whenever string_len reports 0, toString() returns ""
\* and read_string is not called.
C11_StringRoundTrip ==
    last.op = "toString" =>
        /\ (~misuse /\ ~objs[last.w].closed /\ objs[last.w].src /= << >>) =>
               last.seq = objs[last.w].src[1]
        /\ trace[1].arg = 0 =>
               (last.seq = << >> /\ CountCalls(trace, "read_string") = 0)

C11_Witness ==
    /\ last.op = "toString" /\ ~misuse /\ ~objs[last.w].closed
    /\ objs[last.w].src = << <<233>> >>
    /\ last.seq = <<233>>
    /\ CountCalls(trace, "read_string") = 1
    /\ \E w \in Objs : objs[w].src = << << >> >>

\* the readable content of a handle: a descriptor naming nothing reads Null
Content(st, rid) == IF Live(st, rid) THEN st[rid] ELSE NullV

\* C12: on an Array of length len, push(v) with a live v returns, makes the
\* length len + 1, puts v's content at index len and leaves the elements
\* below len as they were; getAt(len) right after it yields a Handle whose
\* content is that element (v's content).
C12_ArrayAppend ==
    [][LET rid == trace'[1].h
           len == array_len(store, rid)
       IN /\ (/\ last'.op = "push"
               /\ IsKind(store, rid, ObjectType.Array)
               /\ Live(store, trace'[1].value)) =>
                 /\ last'.st = "ok"
                 /\ array_len(store', rid) = len + 1
                 /\ store'[rid].elems[len + 1] = store[trace'[1].value]
                 /\ \A i \in 1 .. len : store'[rid].elems[i] = store[rid].elems[i]
          /\ (/\ last.op = "push" /\ last.st = "ok"
               /\ last'.op = "getAt" /\ trace[1].h = rid
               /\ IsKind(store, rid, ObjectType.Array)
               /\ Live(store, trace[1].value)
               /\ trace'[1].arg = len - 1) =>
                 /\ last'.st = "ok"
                 /\ Content(store', last'.val) = store[rid].elems[len]
                 /\ trace[1].value /= rid =>
                       Content(store', last'.val) = store[trace[1].value]]_vars

C12_Witness ==
    /\ last.op = "getAt" /\ last.st = "ok" /\ trace[1].arg = 1
    /\ array_len(store, trace[1].h) = 2
    /\ Live(store, last.val)
    /\ Content(store, last.val) = store[trace[1].h].elems[2]
    /\ Content(store, last.val) = Content(store, objs[2].rid)

\* C13: on an Object, get(k) right after set(k, v) (v live, another value
\* than the object) yields v's content, whether or not k had a value before;
\* get(k) right after remove(k), and get of a key the object does not hold,
\* returns a Null-kind Handle; get on an Object never ends in an error.
C13_ObjectSetGetRemove ==
    [][LET rid == trace'[1].h
           key == trace'[1].key
           isGet == last'.op = "get" /\ IsKind(store, rid, ObjectType.Object)
           same == last.st = "ok" /\ trace[1].h = rid /\ trace[1].key = key
       IN /\ isGet => last'.st = "ok"
          /\ (isGet /\ last.op = "set" /\ same
               /\ Live(store, trace[1].value) /\ trace[1].value /= rid) =>
                 Content(store', last'.val) = store[trace[1].value]
          /\ (isGet /\ last.op = "remove" /\ same) =>
                 typeof_std(store', last'.val) = ObjectType.Null
          /\ (isGet /\ ~HasKey(store, rid, key)) =>
                 typeof_std(store', last'.val) = ObjectType.Null]_vars

C13_Witness ==
    /\ last.op = "get" /\ last.st = "ok" /\ trace[1].key = <<98>>
    /\ HasKey(store, trace[1].h, <<98>>)
    /\ Live(store, last.val)
    /\ Content(store, last.val) = store[trace[1].h].fields[<<98>>]
    /\ Content(store, last.val) = Content(store, objs[2].rid)

\* C14: the mapping toObject() returns has as many entries as keys() has
\* elements, and maps the i-th key of keys() to the i-th Handle of values(),
\* for every i (both enumerations taken by the one call, nothing in between).
C14_ToObjectZip ==
    (last.op = "toObject" /\ last.st = "ok") =>
        /\ Len(last.values) = Len(last.keys)
        /\ Cardinality(DOMAIN last.map) = Len(last.keys)
        /\ \A i \in DOMAIN last.keys : last.map[last.keys[i]] = last.values[i]

C14_Witness ==
    /\ last.op = "toObject" /\ last.st = "ok"
    /\ Len(last.keys) = 2
    /\ last.keys[1] = <<98>> /\ last.keys[2] = <<97>>
    /\ last.map[<<97>>] = last.values[2]
    /\ Content(store, last.map[<<98>>]) = store[objs[last.w].rid].fields[<<98>>]
    /\ Content(store, last.map[<<97>>]) /= Content(store, last.map[<<98>>])

MutatorOps == {"push", "set", "setAt", "remove", "removeAt"}

\* C15: copy() of a live value returns another Handle than the original,
\* with the original's content; and no mutation (push, set, setAt, remove,
\* removeAt) or close of a copy c of v changes v's content, Kind or liveness,
\* as long as v is live and has not been closed itself.
C15_CopyIndependent ==
    [][/\ last'.op = "copy" =>
            LET c == last'.w
                v == objs'[c].of
            IN Live(store, objs[v].rid) =>
                 /\ objs'[c].rid /= objs[v].rid
                 /\ Content(store', objs'[c].rid) = store[objs[v].rid]
                 /\ store'[objs[v].rid] = store[objs[v].rid]
       /\ last'.op \in MutatorOps \cup {"close"} =>
            LET c == last'.w
                v == objs[c].of
            IN (/\ v /= 0 /\ ~objs[c].closed /\ ~objs[v].closed
                /\ Live(store, objs[v].rid)) =>
                 /\ store'[objs[v].rid] = store[objs[v].rid]
                 /\ typeof_std(store', objs[v].rid) = objs[v].kind0
                 /\ Live(store', objs[v].rid)]_vars

C15_Witness ==
    /\ last.op = "close" /\ objs[last.w].of /= 0
    /\ LET v == objs[last.w].of IN
         /\ ~objs[v].closed /\ objs[v].of = 0
         /\ array_len(store, objs[v].rid) = 1
    /\ ~Live(store, objs[last.w].rid)
    /\ ~misuse
    /\ nops = 3

\* the Kind each Kind-specific operation is for
AccessorKind ==
    [toInteger |-> ObjectType.Int, toFloat |-> ObjectType.Float,
     toBool |-> ObjectType.Bool, toString |-> ObjectType.String,
     get |-> ObjectType.Object, set |-> ObjectType.Object,
     remove |-> ObjectType.Object, getAt |-> ObjectType.Array,
     setAt |-> ObjectType.Array, removeAt |-> ObjectType.Array,
     push |-> ObjectType.Array]

\* C16: a Kind-specific accessor or key/index operation called on a live
\* Handle of another Kind ends in an abort and never returns an ordinary
\* value to the caller.
C16_MismatchFailsLoudly ==
    (/\ last.op \in DOMAIN AccessorKind
     /\ Live(store, trace[1].h)
     /\ typeof_std(store, trace[1].h) /= AccessorKind[last.op]) =>
        last.st = "abort"

\* C17: next() / previous() return an Html wrapper if and only if the Handle
\* the host returned has Kind Node, and null otherwise; next() on the last
\* element of a sibling list and previous() on the first return null.
C17_SiblingNavigation ==
    [][last'.op \in {"next", "previous"} =>
         LET h == trace'[1].h
             rid == last'.val
         IN /\ last'.st = "ok"
            /\ last'.flag <=> typeof_std(store', rid) = NodeV.kind
            /\ last'.flag => objs' = Append(objs, Wrapper(store', rid))
            /\ ~last'.flag => objs' = objs
            /\ (last'.op = "next" /\ IsNode(store, h) /\ After(store[h]) = 0) =>
                  ~last'.flag
            /\ (last'.op = "previous" /\ IsNode(store, h) /\ Before(store[h]) = 0) =>
                  ~last'.flag]_vars

C17_Witness ==
    /\ last.op = "next" /\ ~last.flag
    /\ IsNode(store, trace[1].h)
    /\ Before(store[trace[1].h]) = 1 /\ After(store[trace[1].h]) = 0
    /\ Live(store, last.val) /\ typeof_std(store, last.val) = ObjectType.Null
    /\ \A w \in Objs : objs[w].rid /= last.val

\* C18: a second close() on the same wrapper ends in an abort and issues no
\* second destroy on the same Handle id.
C18_DoubleCloseFatal ==
    [][(last'.op = "close" /\ objs[last'.w].closed) =>
          (last'.st = "abort" /\ CountCalls(trace', "destroy") = 0)]_vars

ViewOps == {"json", "html", "parse"}

\* C19: Request.json(), Request.html() and JSON.parse() always return, and
\* return a wrapper around the Handle the host returned, whatever the host's
\* result; a failure shows only as the wrapper's Kind.
C19_FailuresAreHandles ==
    [][last'.op \in ViewOps =>
         /\ last'.st = "ok"
         /\ objs' = Append(objs, Wrapper(store', last'.val))
         /\ objs'[Len(objs')].kind0 = typeof_std(store', last'.val)]_vars

C19_Witness ==
    /\ last.op = "parse" /\ last.st = "ok"
    /\ last.val = NoRid
    /\ objs[Len(objs)].rid = NoRid
    /\ type(Len(objs)) = ObjectType.Null
    /\ \E w \in Objs : IsNode(store, objs[w].rid)
    /\ \E i \in Reqs : reqs[i].acc = 1

\* the header state after the entries of a mapping have been set over old
Overridden(old, entries) ==
    [k \in (DOMAIN old) \cup {UTF8encode(entries[n][1]) : n \in DOMAIN entries} |->
        IF \E n \in DOMAIN entries : UTF8encode(entries[n][1]) = k
        THEN UTF8encode(entries[CHOOSE n \in DOMAIN entries :
                                    UTF8encode(entries[n][1]) = k][2])
        ELSE old[k]]

\* C20: the headers bulk setter issues set_header once for each entry of
\* the mapping and nothing else, each time with that entry's own key and
\* value; the header state it leaves on a live request is the old state
\* overridden by the mapping, whatever the order of the entries.
C20_HeadersBulkSet ==
    [][last'.op = "set headers" =>
         LET entries == last'.entries
             h == reqs[last'.w].req
         IN /\ Len(trace') = Len(entries)
            /\ \A n \in DOMAIN entries :
                  Cardinality({k \in DOMAIN trace' :
                                  /\ trace'[k].fn = "set_header"
                                  /\ trace'[k].h = h
                                  /\ trace'[k].key = UTF8encode(entries[n][1])
                                  /\ trace'[k].data = UTF8encode(entries[n][2])}) = 1
            /\ NetLive(netstore, h) =>
                  netstore'[h].headers = Overridden(netstore[h].headers, entries)]_vars

C20_Witness ==
    /\ last.op = "set headers" /\ Len(last.entries) = 2
    /\ last.entries[1][1] = <<98>>
    /\ NetLive(netstore, reqs[last.w].req)
    /\ netstore[reqs[last.w].req].headers =
          [k \in {<<97>>, <<98>>} |-> IF k = <<97>> THEN <<122>> ELSE <<121>>]
    /\ CountCalls(trace, "set_header") = 2

InsertOps == {"push", "set", "setAt"}

\* C21: push(v), set(k, v) and setAt(i, v) with a live v issue no destroy,
\* leave every wrapper's rid as it was and leave v live, with its content
\* unchanged when v is another value than the container; and close() of the
\* container right after leaves such a v live with its content.
C21_NoOwnershipTransfer ==
    [][/\ (last'.op \in InsertOps /\ Live(store, trace'[1].value)) =>
            LET v == trace'[1].value IN
            /\ CountCalls(trace', "destroy") = 0
            /\ \A w \in Objs : objs'[w].rid = objs[w].rid
            /\ Live(store', v)
            /\ v /= trace'[1].h => store'[v] = store[v]
       /\ (/\ last.op \in InsertOps /\ last.st = "ok"
            /\ last'.op = "close" /\ trace'[1].h = trace[1].h
            /\ Live(store, trace[1].value) /\ trace[1].value /= trace[1].h) =>
            LET v == trace[1].value IN
            /\ Live(store', v)
            /\ store'[v] = store[v]]_vars

C21_Witness ==
    /\ last.op = "push" /\ last.st = "ok" /\ ~misuse
    /\ trace[1].value /= trace[1].h
    /\ Live(store, trace[1].value)
    /\ array_len(store, trace[1].h) = 2
    /\ store[trace[1].h].elems[2] = store[trace[1].value]
    /\ \E w \in Objs : objs[w].rid = trace[1].value /\ ~objs[w].closed

\* C22: when a library operation returns, every Handle it obtained from the
\* host and did not return to the caller has been released: every live
\* descriptor is the rid of some wrapper the caller was given.
C22_NoLibraryLeak ==
    \A r \in DOMAIN store : Live(store, r) => \E w \in Objs : objs[w].rid = r

\* C23: toArray() on an Array of length n returns; it returns n wrappers,
\* appended to the caller's in order, the i-th around a live Handle whose
\* content is element i; and the host calls it issues are array_len, which
\* reports n, then array_get at the indices 0, 1, ..., n - 1 in this order,
\* on every call, a second call on the same array included.
C23_ToArrayEager ==
    [][(last'.op = "toArray" /\ IsKind(store, trace'[1].h, ObjectType.Array)) =>
         LET rid == trace'[1].h
             n == array_len(store, rid)
             result == last'.values
         IN /\ last'.st = "ok"
            /\ Len(result) = n
            /\ Len(objs') = Len(objs) + n
            /\ \A i \in 1 .. n :
                  /\ objs'[Len(objs) + i].rid = result[i]
                  /\ Live(store', result[i])
                  /\ store'[result[i]] = store[rid].elems[i]
                  /\ \A j \in 1 .. n : result[j] = result[i] => j = i
            /\ Len(trace') = n + 1
            /\ trace'[1].fn = "array_len" /\ trace'[1].arg = n
            /\ \A i \in 1 .. n :
                  /\ trace'[i + 1].fn = "array_get"
                  /\ trace'[i + 1].h = rid
                  /\ trace'[i + 1].arg = i - 1]_vars

C23_Witness ==
    /\ last.op = "toArray" /\ last.st = "ok" /\ ~misuse
    /\ Len(last.values) = 2
    /\ array_len(store, trace[1].h) = 2
    /\ store[last.values[1]] /= store[last.values[2]]
    /\ store[last.values[2]] = store[trace[1].h].elems[2]
    /\ Len(objs) = 6

\* C24: array() on a node-set of n elements returns; it returns n wrappers,
\* appended to the caller's in order, the i-th around a Handle of its own
\* whose content is the i-th element of the set in document order; the host
\* calls are array, array_len, then array_get at 0, 1, ..., n - 1.
C24_HtmlArrayOrdered ==
    [][(last'.op = "Html.array" /\ IsNode(store, trace'[1].h)) =>
         LET elems == store[trace'[1].h].elems
             n == Len(elems)
             result == last'.values
         IN /\ last'.st = "ok"
            /\ Len(result) = n
            /\ Len(objs') = Len(objs) + n
            /\ \A i \in 1 .. n :
                  /\ objs'[Len(objs) + i].rid = result[i]
                  /\ Live(store', result[i])
                  /\ store'[result[i]] = elems[i]
                  /\ \A j \in 1 .. n : result[j] = result[i] => j = i
            /\ Len(trace') = n + 2
            /\ trace'[2].fn = "array_len" /\ trace'[2].h = last'.val
            /\ \A i \in 1 .. n :
                  /\ trace'[i + 2].fn = "array_get"
                  /\ trace'[i + 2].h = last'.val
                  /\ trace'[i + 2].arg = i - 1]_vars

C24_Witness ==
    /\ last.op = "Html.array" /\ ~misuse
    /\ IsNode(store, trace[1].h)
    /\ Len(store[trace[1].h].elems) = 2
    /\ Len(last.values) = 2
    /\ store[last.values[1]] = ElementV(0, 1)
    /\ store[last.values[2]] = ElementV(1, 0)
    /\ objs[Len(objs)].rid = last.values[2]

\* C25: a direct send() issues one host call, send on the instance's request
\* Handle, whether `sent` was false or true before; it leaves `sent` true,
\* issues no close, and a live request Handle stays live with one more
\* transmit.
C25_SendUngated ==
    [][last'.op = "send" =>
         LET i == last'.w
             h == reqs[i].req
         IN /\ Len(trace') = 1
            /\ trace'[1].fn = "send" /\ trace'[1].h = h
            /\ reqs'[i].sent
            /\ reqs'[i].req = h
            /\ reqs'[i].sends = reqs[i].sends + 1
            /\ reqs'[i].closes = reqs[i].closes
            /\ NetLive(netstore, h) =>
                  /\ NetLive(netstore', h)
                  /\ netstore'[h].sends = netstore[h].sends + 1]_vars

C25_Witness ==
    /\ last.op = "send"
    /\ LET i == last.w IN
         /\ reqs[i].direct = 2 /\ reqs[i].sends = 2 /\ reqs[i].sent
         /\ reqs[i].closes = 0
         /\ NetLive(netstore, reqs[i].req)
         /\ netstore[reqs[i].req].sends = 2

BuilderOps == {"set url", "setHeader", "set headers", "set body"}
BuilderFns == {"set_url", "set_header", "set_body"}

\* C26: the url setter, setHeader, the headers setter and the body setter
\* issue only their own host call (set_url, set_header, set_body), so no
\* send and no close; they leave the instance (`sent` and its Handle) as it
\* was, the value table untouched, every request Handle as live as before
\* and the number of transmits of each unchanged; on an unsent and on a sent
\* instance alike.
C26_BuildersConfigureOnly ==
    [][last'.op \in BuilderOps =>
         /\ \A k \in DOMAIN trace' :
               trace'[k].fn \in BuilderFns /\ trace'[k].h = reqs[last'.w].req
         /\ reqs' = reqs
         /\ store' = store
         /\ \A h \in NetRidSet :
               /\ NetLive(netstore', h) <=> NetLive(netstore, h)
               /\ netstore'[h].sends = netstore[h].sends
               /\ netstore'[h].resp = netstore[h].resp
               /\ h /= reqs[last'.w].req => netstore'[h] = netstore[h]]_vars

C26_Witness ==
    /\ last.op = "set body"
    /\ LET i == last.w IN
         /\ reqs[i].sent /\ reqs[i].sends = 1 /\ reqs[i].closes = 0
         /\ NetLive(netstore, reqs[i].req)
         /\ netstore[reqs[i].req].body = <<195, 169>>
         /\ netstore[reqs[i].req].sends = 1

\* C27: reading url issues get_url once on the request Handle, then
\* string_len and (for a non-empty string) read_string on the Handle t that
\* get_url returned, then destroy(t) once, as its last call, and nothing
\* else; on a live request t was live while it was read, the string
\* returned is the url, and t is released on return. The instance, the
\* request table and every other value Handle are as before.
C27_UrlGetterTemporary ==
    [][last'.op = "get url" =>
         LET i == last'.w
             h == reqs[i].req
             n == Len(trace')
             t == trace'[n].h
         IN /\ n \in {3, 4}
            /\ trace'[1].fn = "get_url" /\ trace'[1].h = h
            /\ trace'[2].fn = "string_len" /\ trace'[2].h = t
            /\ n = 4 => (trace'[3].fn = "read_string" /\ trace'[3].h = t)
            /\ trace'[n].fn = "destroy"
            /\ CountCalls(trace', "destroy") = 1
            /\ ~Live(store', t)
            /\ \A r \in DOMAIN store : r /= t => store'[r] = store[r]
            /\ reqs' = reqs
            /\ netstore' = netstore
            /\ NetLive(netstore, h) =>
                  /\ t \in DOMAIN store /\ ~Live(store, t)
                  /\ trace'[2].live
                  /\ last'.seq = UTF8decode(netstore[h].url)]_vars

C27_Witness ==
    /\ last.op = "get url" /\ last.seq = <<117>>
    /\ Len(trace) = 4 /\ trace[3].fn = "read_string" /\ trace[3].live
    /\ trace[4].fn = "destroy" /\ trace[4].live
    /\ ~Live(store, trace[4].h)
    /\ NetLive(netstore, reqs[last.w].req)
    /\ reqs[last.w].sent

\* C28: json() / html() called on an instance whose request Handle is live
\* (the one it obtained from init, not released since) issue the host's
\* json / html call once, on the live request Handle, and close(req) once,
\* after it; on return the request Handle is released and
\* the wrapper returned holds the Handle the host returned, which (when the
\* host returned one) is a value Handle that was not live before and is live
\* now; no other value Handle is touched.
C28_ViewOutlivesRequest ==
    [][(/\ last'.op \in {"json", "html"}
        /\ Own(netstore, reqs[last'.w].req, last'.w)) =>
         LET h == reqs[last'.w].req
             rid == last'.val
         IN /\ CountCalls(trace', last'.op) = 1
            /\ CountCalls(trace', "close") = 1
            /\ \A k, m \in DOMAIN trace' :
                  (trace'[k].fn = last'.op /\ trace'[m].fn = "close") =>
                      /\ k < m
                      /\ trace'[k].h = h /\ trace'[k].live
                      /\ trace'[m].h = h /\ trace'[m].live
            /\ ~NetLive(netstore', h)
            /\ objs' = Append(objs, Wrapper(store', rid))
            /\ rid /= NoRid => (~Live(store, rid) /\ Live(store', rid))
            /\ \A r \in DOMAIN store : r /= rid => store'[r] = store[r]]_vars

C28_Witness ==
    /\ last.op = "html" /\ reqs[last.w].acc = 1
    /\ ~NetLive(netstore, reqs[last.w].req)
    /\ CountCalls(trace, "send") = 1
    /\ objs[Len(objs)].rid = last.val
    /\ IsNode(store, last.val)
    /\ \E w \in Objs : objs[w].kind0 = ObjectType.Object /\ Live(store, objs[w].rid)

\* C29: the buffer data() returns has as many bytes as the host reported
\* for the response of a live request, for every size of the unsigned word
\* range, the sizes from 2^(w-1) up included.
C29_DataLengthIsSize ==
    last.op = "data" =>
        \A k \in DOMAIN trace :
            (trace[k].fn = "get_data_size" /\ trace[k].live) =>
                Len(last.seq) = trace[k].arg

\* C30: toInteger() on the wrapper integer(n) returned (not closed, and no
\* wrapper used after its close()) returns, and returns n, for every n of
\* the input set: negative values and both extremes of the i32 range
\* included.
C30_IntegerRoundTrip ==
    (/\ last.op = "toInteger" /\ ~misuse
     /\ ~objs[last.w].closed /\ objs[last.w].int /= << >>) =>
        /\ last.st = "ok"
        /\ last.val = objs[last.w].int[1]

C30_Witness ==
    /\ last.op = "toInteger" /\ last.st = "ok" /\ ~misuse
    /\ ~objs[last.w].closed
    /\ objs[last.w].int = <<0 - (Word \div 2)>>
    /\ last.val = 0 - (Word \div 2)
    /\ \E w \in Objs : objs[w].int = <<(Word \div 2) - 1>>

\* C31: reading value passes to create_deeplink the manga's Handle when
\* there is a manga and the chapter's Handle when there is a chapter, the
\* Handle 0 included, and -1 for a component only when that component is
\* null.
C31_DeepLinkPassesHandles ==
    last.op = "DeepLink.value" =>
        LET d == links[last.w] IN
        /\ Len(trace) = 1 /\ trace[1].fn = "create_deeplink"
        /\ trace[1].h = IF d.manga.given THEN d.manga.value ELSE 0 - 1
        /\ trace[1].value = IF d.chapter.given THEN d.chapter.value ELSE 0 - 1

====
